---- MODULE Spec2Model ----
(***************************************************************************)
(* Alert-processing orchestrator of the PSA repository.                    *)
(*                                                                         *)
(* langgraph_workflow.py builds a six-node graph (triage, diagnostic,      *)
(* predictive, human_review, escalation, finalize) with conditional edges; *)
(* app_langgraph.py is the request layer that starts a run, stores the     *)
(* returned state in workflow_history and offers approve / reject.         *)
(*                                                                         *)
(* A graph run is modelled node by node: one action per node, which        *)
(* applies the node function to the run's state and then the node's        *)
(* (conditional) edge.  Scores are kept in tenths: confidence 0.3 is 3.    *)
(***************************************************************************)
EXTENDS Integers, Sequences, FiniteSets, TLC

\* ---------------------------------------------------------------- bounds
MaxAlerts == 1      \* alerts accepted by the request layer
MaxRows   == 6      \* rows of the historical case log
MaxClock  == 1      \* seconds the wall clock advances
MaxDocs   == 6      \* SOP documents of a module's collection
MaxEntities == 2    \* entities handed to the retriever
MaxRequests == 2    \* /process_alert requests received concurrently
MaxWords == 2       \* words of a classified alert text
MaxReviews == 2     \* approve / reject requests received
MaxHandlers == 3    \* alert and review requests received, taken together

\* ------------------------------------------------------ program constants
LowConfidence      == 3    \* confidence < 0.3
HighConfidence     == 7    \* confidence > 0.7
DefaultConfidence  == 5    \* diagnostic_result.get("confidence_score", 0.5)
FallbackConfidence == 3    \* _fallback_diagnostic: 0.3
InitialConfidence  == 0    \* process_alert: confidence_score=0.0
HighRiskRows       == 5    \* len(filtered_data) > 5
SemanticResults    == 5    \* semantic query: n_results=5
KeywordResults     == 2    \* constrained keyword query: n_results=2
EntityResults      == 1    \* per-entity query: n_results=1
FallbackResults    == 3    \* retry after a failed search: n_results=3
ScoreOne           == 10   \* the 1 of relevance_score = 1 - distance

\* A key that a parsed JSON object does not carry (a string, a score).
Absent == "<absent>"
AbsentScore == -1
\* A confidence_score that is no number: JSON null, a JSON string, a JSON
\* list and a JSON object.  Comparing any of them with 0.3 raises
\* TypeError, whose text names the type.
NullScore == -2
TextScore == -3
ListScore == -4
DictScore == -5
NonNumeric == {NullScore, TextScore, ListScore, DictScore}
\* The handler has not entered workflow.process_alert: no timestamp yet.
NoTimestamp == -1
\* No filtered_data exists: the filter was not run, or it raised.
NoFilter == -1
\* A list-valued key that a parsed JSON object does not carry.
AbsentList == <<Absent>>
\* The empty dict {} of escalation_contact / email_content.
EmptyDict == "{}"
\* error_message=None
None == "None"

\* Values the reasoning provider may put in its JSON answer.
SeverityValues   == {"critical", "high", "medium", "low", "info"}
ModuleValues     == {"CNTR", "Infra/SRE"}
ConfidenceValues == {0, 2, 3, 5, 7, 8, 10}
AlertTexts       == {"CRITICAL: Database connection failed, all services down"}

\* The log files a simulation request selects, each given by its content;
\* Unreadable is a path that open() cannot read.
Unreadable == "<unreadable>"

SelectedFiles ==
    {<<>>,
     <<"CRITICAL: Database connection failed, all services down">>,
     <<Unreadable,
       "CRITICAL: Database connection failed, all services down">>,
     <<"CRITICAL: Database connection failed, all services down",
       "INFO: System maintenance completed successfully">>}

\* Case ids.  f"PSA-{now:%Y%m%d-%H%M%S}" is the second of the request;
\* f"SIM-{now:%Y%m%d-%H%M%S}-{len(results)}" adds the number of files the
\* simulation has already gone through.
NoIndex == -1

PSA(second) == [prefix |-> "PSA", second |-> second, index |-> NoIndex]

SIM(second, index) == [prefix |-> "SIM", second |-> second, index |-> index]


\* Answers of self.llm.invoke + json.loads in the triage node:
\* "raise" (the call or the parse raised), "nondict" (valid JSON that is
\* not an object) or "dict" (an object, keys possibly missing).
\* An object carries module, urgency and entities together or not at all.
TriageResponses ==
    [kind : {"raise", "nondict"}, severity : {Absent}, module : {Absent},
     urgency : {Absent}, entities : {AbsentList}]
    \cup [kind : {"dict"}, severity : SeverityValues \cup {Absent},
          module : ModuleValues, urgency : {"immediate"},
          entities : {<<"CMAU1234567">>}]
    \cup [kind : {"dict"}, severity : SeverityValues \cup {Absent},
          module : {Absent}, urgency : {Absent}, entities : {AbsentList}]

\* Answers of self.llm.invoke + json.loads in the diagnostic analysis; an
\* object's confidence_score is a number, missing, or no number at all.
DiagnosticResponses ==
    [kind : {"raise", "nondict"}, confidence_score : {AbsentScore}]
    \cup [kind : {"dict"},
          confidence_score :
              ConfidenceValues \cup {AbsentScore} \cup NonNumeric]

VARIABLES
    llm,               \* workflow.llm is not None
    historical_data,   \* number of rows of workflow.historical_data
    clock,             \* datetime.now(), in seconds
    workflow_history,  \* app_langgraph.workflow_history: case_id -> the
                       \* dict object stored, by its position in heap
    pc,                \* "idle", "process_alert" (the handler has its case
                       \* id), the node the graph runs next, "END", or
                       \* "raised" (ainvoke raised)
    state,             \* the PSAState of the run in progress
    executed,          \* the nodes the graph has invoked in this run
    collections,       \* workflow.collections: module -> number of SOPs
    entities,          \* the diagnostic node's local: state's entities
    semantic_sops,     \* the retriever's semantic results
    keyword_sops,      \* the retriever's keyword results
    candidate_sops,    \* what the retriever returned
    queries,           \* the collection.query calls the retriever made
    llm_calls,         \* llm.invoke calls of the diagnostic stage
    requests,          \* the /process_alert requests received so far
    filtered_data,     \* len(filtered_data) of the predictive analysis
    simulations,       \* the /simulation/start handlers awaiting a run
    heap,              \* the dict objects process_alert has returned
    reviews            \* the approve / reject requests received so far

\* The retriever's variables: the runs of Spec keep the retrieval abstract
\* (found or not) and leave them alone; RetrieveSpec works on them.
retriever == <<collections, entities, semantic_sops, keyword_sops,
               candidate_sops, queries, llm_calls>>

\* The request handlers in progress and the row count of the predictive
\* filter: CaseSpec and PredictSpec work on them.
others == <<requests, filtered_data, simulations, heap, reviews>>

vars == <<llm, historical_data, clock, workflow_history, pc, state, executed,
          retriever, others>>

\* ---------------------------------------------------------------- helpers
Range(seq) == {seq[i] : i \in 1..Len(seq)}

Last(seq) == seq[Len(seq)]

\* dict.get(key, default)
Get(value, default) == IF value = Absent THEN default ELSE value

GetScore(value, default) == IF value = AbsentScore THEN default ELSE value

GetList(value, default) == IF value = AbsentList THEN default ELSE value

\* d[key] = value on a dict: the key is added when d does not carry it.
SetKey(d, key, value) ==
    [k \in DOMAIN d \cup {key} |-> IF k = key THEN value ELSE d[k]]

\* Every occurrence of a comes before every occurrence of b.
Before(seq, a, b) ==
    \A i, j \in 1..Len(seq) : (seq[i] = a /\ seq[j] = b) => i < j

Count(seq, a) == Cardinality({i \in 1..Len(seq) : seq[i] = a})

\* ------------------------------------------------------------ PSAState
initial_state(alert_text, case_id, timestamp) ==
    [alert_text          |-> alert_text,
     case_id             |-> case_id,
     timestamp           |-> timestamp,
     severity            |-> "",
     urgency             |-> "",
     module              |-> "",
     entities            |-> <<>>,
     confidence_score    |-> InitialConfidence,
     best_sop            |-> "",
     risk_assessment     |-> "",
     needs_human_review  |-> FALSE,
     auto_escalate       |-> FALSE,
     human_approved      |-> FALSE,
     execution_path      |-> <<>>,
     escalation_contact  |-> EmptyDict,
     email_content       |-> EmptyDict,
     final_recommendation |-> "",
     status              |-> "processing",
     error_message       |-> None,
     rejection_reason    |-> Absent]

\* ------------------------------------------------------ fallback results
_fallback_triage ==
    [kind |-> "dict", severity |-> "medium", module |-> "CNTR",
     urgency |-> "medium", entities |-> <<"unknown">>]

_fallback_diagnostic ==
    [kind |-> "dict", confidence_score |-> FallbackConfidence,
     best_sop_id |-> "Manual Review Required"]

_fallback_predictive == [risk_level |-> "medium"]

\* ------------------------------------------------------------------ nodes
\* r: what llm.invoke + json.loads produced (unused without an llm).
_triage_node(s, r) ==
    LET triage_result == IF llm THEN r ELSE _fallback_triage
    IN  IF triage_result.kind = "dict"
        THEN [s EXCEPT !.severity = Get(triage_result.severity, "medium"),
                       !.urgency = Get(triage_result.urgency, "medium"),
                       !.module = Get(triage_result.module, "Unknown"),
                       !.entities = GetList(triage_result.entities, <<>>),
                       !.execution_path = Append(@, "triage")]
        ELSE [s EXCEPT !.error_message = "triage: " \o triage_result.kind,
                       !.status = "error"]

\* json.loads(response.content), any exception replaced by the fallback.
_perform_diagnostic_analysis(r) ==
    IF r.kind = "raise"
    THEN _fallback_diagnostic
    ELSE [kind |-> r.kind, confidence_score |-> r.confidence_score,
          best_sop_id |-> "SOP"]

_diagnostic_node_always_analyses(s, found, r) ==
    LET diagnostic_result ==
            IF llm THEN _perform_diagnostic_analysis(r)
                   ELSE _fallback_diagnostic
    IN  IF diagnostic_result.kind = "dict"
        THEN [s EXCEPT !.confidence_score =
                           GetScore(diagnostic_result.confidence_score,
                               DefaultConfidence),
                       !.best_sop = diagnostic_result.best_sop_id,
                       !.execution_path = Append(@, "diagnostic")]
        ELSE [s EXCEPT !.error_message = "diagnostic: nondict",
                       !.status = "error"]

\* found: _retrieve_candidate_sops returned a non-empty list.
_diagnostic_node(s, found, r) ==
    LET diagnostic_result ==
            IF llm /\ found THEN _perform_diagnostic_analysis(r)
                            ELSE _fallback_diagnostic
    IN  IF diagnostic_result.kind = "dict"
        THEN [s EXCEPT !.confidence_score =
                           GetScore(diagnostic_result.confidence_score,
                               DefaultConfidence),
                       !.best_sop = diagnostic_result.best_sop_id,
                       !.execution_path = Append(@, "diagnostic")]
        ELSE [s EXCEPT !.error_message = "diagnostic: nondict",
                       !.status = "error"]

\* Where the try block of the analysis raises: nowhere, in the filter
\* (str.contains), or after it, in the summary of the kept rows
\* (value_counts, mean of 'Resolution Time', the f-string).
RaisePoints == {"none", "filter", "summary"}

\* matched: rows whose problem statement contains the case's.  Any raise
\* is caught by the one except, which answers with the fallback; without
\* kept rows the function returns before the summary.
_analyze_historical_patterns(matched, raises) ==
    IF historical_data = 0 \/ raises = "filter" \/ matched = 0
    THEN _fallback_predictive
    ELSE IF raises = "summary"
    THEN _fallback_predictive
    ELSE [risk_level |-> IF matched > HighRiskRows THEN "high" ELSE "medium"]

\* A predictive node that also raises the severity of a high-risk case.
_predictive_node_reclassifies(s, matched, raises) ==
    LET predictive_result ==
            IF historical_data # 0
            THEN _analyze_historical_patterns(matched, raises)
            ELSE _fallback_predictive
    IN  [s EXCEPT !.risk_assessment = predictive_result.risk_level,
                  !.severity = IF predictive_result.risk_level = "high"
                               THEN "critical" ELSE @,
                  !.execution_path = Append(@, "predictive")]

_predictive_node(s, matched, raises) ==
    LET predictive_result ==
            IF historical_data # 0
            THEN _analyze_historical_patterns(matched, raises)
            ELSE _fallback_predictive
    IN  [s EXCEPT !.risk_assessment = predictive_result.risk_level,
                  !.execution_path = Append(@, "predictive")]

\* The node has no try block: with a critical/high severity the
\* comparison confidence > 0.7 is made, and raises on a non-number.
_human_review_node_raises(s) ==
    s.severity \in {"critical", "high"} /\ s.confidence_score \in NonNumeric

_human_review_node(s) ==
    LET approve == s.severity \in {"critical", "high"}
                   /\ s.confidence_score > HighConfidence
    IN  [s EXCEPT !.human_approved = approve,
                  !.auto_escalate = approve,
                  !.execution_path = Append(@, "human_review")]

\* contacts.get(module, contacts["CNTR"]); a record is named by its key.
_get_escalation_contact(module) ==
    IF module \in {"CNTR", "VSL", "EDI/API"} THEN module ELSE "CNTR"

\* An escalation node that assigns the contact before rendering the email.
_escalation_node_contact_first(s) ==
    LET c == [s EXCEPT !.escalation_contact =
                           _get_escalation_contact(s.module)]
    IN  [c EXCEPT !.email_content = c.escalation_contact,
                  !.execution_path = Append(@, "escalation")]

\* The email is rendered from state["escalation_contact"], which the node
\* assigns only afterwards: with the {} of process_alert the lookup raises.
_escalation_node(s) ==
    IF s.escalation_contact = EmptyDict
    THEN [s EXCEPT !.error_message = "'escalation_contact'",
                   !.status = "error"]
    ELSE [s EXCEPT !.email_content = s.escalation_contact,
                   !.escalation_contact = _get_escalation_contact(s.module),
                   !.execution_path = Append(@, "escalation")]

_generate_final_recommendation(s) ==
    IF s.auto_escalate THEN "Escalation sent" ELSE "Awaiting human review"

_finalize_node(s) ==
    [s EXCEPT !.final_recommendation = _generate_final_recommendation(s),
              !.status = "completed",
              !.execution_path = Append(@, "finalize")]

\* ---------------------------------------------------------------- routing
_route_after_triage_low_first(s) ==
    IF s.severity \in {"critical", "high", "low"} THEN "diagnostic"
    ELSE "human_review"

_route_after_triage(s) ==
    IF s.severity = "low" THEN "end"
    ELSE IF s.severity \in {"critical", "high"} THEN "diagnostic"
    ELSE "human_review"

_route_after_diagnostic_nonstrict(s) ==
    IF s.confidence_score \in NonNumeric THEN "raised"
    ELSE IF s.confidence_score <= LowConfidence THEN "human_review"
    ELSE IF s.severity \in {"critical", "high"}
            /\ s.confidence_score >= HighConfidence THEN "escalation"
    ELSE "predictive"

\* confidence < 0.3 raises TypeError when confidence is no number; the
\* function runs outside every node's try block, so "raised" stands for
\* the exception leaving graph.ainvoke.
_route_after_diagnostic(s) ==
    IF s.confidence_score \in NonNumeric THEN "raised"
    ELSE IF s.confidence_score < LowConfidence THEN "human_review"
    ELSE IF s.severity \in {"critical", "high"}
            /\ s.confidence_score > HighConfidence THEN "escalation"
    ELSE "predictive"

_route_after_predictive_or(s) ==
    IF s.risk_assessment = "high" \/ s.severity \in {"critical", "high"}
    THEN "escalation"
    ELSE "human_review"

_route_after_predictive(s) ==
    IF s.risk_assessment = "high" /\ s.severity \in {"critical", "high"}
    THEN "escalation"
    ELSE "human_review"

_route_after_human_review_end(s) ==
    IF s.human_approved THEN "escalation" ELSE "end"

_route_after_human_review_inverted(s) ==
    IF s.human_approved THEN "finalize" ELSE "escalation"

_route_after_human_review(s) ==
    IF s.human_approved THEN "escalation" ELSE "finalize"

\* The target map of add_conditional_edges: only "end" is renamed.  (An
\* exception of the routing function never reaches the map: "raised"
\* passes as it is.)
_build_graph(label) == IF label = "end" THEN "END" ELSE label

\* ------------------------------------------------------------------- Init
\* No retrieval has been made.
RetrieverIdle ==
    /\ collections = <<>>
    /\ entities = <<>>
    /\ semantic_sops = <<>>
    /\ keyword_sops = <<>>
    /\ candidate_sops = <<>>
    /\ queries = <<>>
    /\ llm_calls = 0

\* No request is in progress and no predictive filter has run.
OthersIdle ==
    /\ requests = <<>>
    /\ filtered_data = NoFilter
    /\ simulations = <<>>
    /\ heap = <<>>
    /\ reviews = <<>>

\* ------------------------------------------------- the graph run as a whole
\* What the reasoning provider, the retriever and the case log answer
\* during one run.
RunInputs ==
    [triage : TriageResponses, found : BOOLEAN,
     diagnostic : DiagnosticResponses,
     matched : 0..historical_data, raises : RaisePoints]

\* The node function registered under a name by add_node.
RunNode(node, s, in) ==
    CASE node = "triage"       -> _triage_node(s, in.triage)
      [] node = "diagnostic"   -> _diagnostic_node(s, in.found, in.diagnostic)
      [] node = "predictive"   -> _predictive_node(s, in.matched, in.raises)
      [] node = "human_review" -> _human_review_node(s)
      [] node = "escalation"   -> _escalation_node(s)
      [] node = "finalize"     -> _finalize_node(s)

\* The edge leaving a node: conditional for the first four, fixed for
\* escalation and finalize; "raised" when the routing function raises.
RunEdge(node, s) ==
    CASE node = "triage"       -> _build_graph(_route_after_triage(s))
      [] node = "diagnostic"   -> _build_graph(_route_after_diagnostic(s))
      [] node = "predictive"   -> _build_graph(_route_after_predictive(s))
      [] node = "human_review" -> _build_graph(_route_after_human_review(s))
      [] node = "escalation"   -> "finalize"
      [] node = "finalize"     -> "END"

\* The run from a node on: how it ends ("END", or "raised" when an
\* exception leaves the graph) and the state it ends with.
RECURSIVE RunFrom(_, _, _)
RunFrom(node, s, in) ==
    IF node \in {"END", "raised"} THEN [pc |-> node, state |-> s]
    ELSE IF node = "human_review" /\ _human_review_node_raises(s)
    THEN [pc |-> "raised", state |-> s]
    ELSE LET t == RunNode(node, s, in)
         IN  RunFrom(RunEdge(node, t), t, in)

\* self.graph.ainvoke(initial_state): the run from the entry point.
ainvoke(s, in) == RunFrom("triage", s, in)

\* str(e) of the TypeError a comparison with a non-number raises.
TypeError(score) ==
    CASE score = NullScore ->
           "'<' not supported between instances of 'NoneType' and 'float'"
      [] score = TextScore ->
           "'<' not supported between instances of 'str' and 'float'"
      [] score = ListScore ->
           "'<' not supported between instances of 'list' and 'float'"
      [] score = DictScore ->
           "'<' not supported between instances of 'dict' and 'float'"

\* What workflow.process_alert returns for a run that ended at exit with
\* state s: dict(final_state), or the three keys of its except clause
\* when ainvoke raised.
process_alert_result(exit, s) ==
    IF exit = "END" THEN s
    ELSE [status        |-> "error",
          error_message |-> TypeError(s.confidence_score),
          case_id       |-> s.case_id]

\* Some of the answers a run can get, used where several runs are
\* followed at once: the provider failing throughout, a critical alert
\* diagnosed with confidence or with a null confidence, and a notice.
SampleInputs ==
    {in \in RunInputs :
        /\ in.found /\ in.matched = 0 /\ in.raises = "none"
        /\ in.triage.module = Absent
        /\ \/ in.triage.kind = "raise" /\ in.diagnostic.kind = "raise"
           \/ /\ in.triage.kind = "dict" /\ in.diagnostic.kind = "dict"
              /\ in.triage.severity \in {"critical", "low"}
              /\ in.diagnostic.confidence_score \in {8, NullScore}}

\* workflow_history[case_id] = the object at position ref of heap
Store(history, case_id, ref) ==
    [c \in DOMAIN history \cup {case_id} |->
        IF c = case_id THEN ref ELSE history[c]]

\* workflow_history[case_id], the dict itself.
Stored(case_id) == heap[workflow_history[case_id]]

\* The files of a selection that can be read.
Readable(files) == Cardinality({i \in DOMAIN files : files[i] # Unreadable})

\* The for loop of start_simulation up to its next call of
\* workflow.process_alert, at second now: a file that cannot be read only
\* adds an error to results; the first that can is given the id
\* SIM-<now>-<len(results)>.  The value is the handler about to make the
\* call (its result not yet stored), or nothing when the loop has ended
\* and the handler returned.
RECURSIVE simulation_loop(_, _, _)
simulation_loop(files, results, now) ==
    IF files = <<>> THEN <<>>
    ELSE IF Head(files) = Unreadable
    THEN simulation_loop(Tail(files), results + 1, now)
    ELSE <<[case_id     |-> SIM(now, results),
            timestamp   |-> NoTimestamp,
            log_content |-> Head(files),
            results     |-> results,
            files       |-> Tail(files),
            stored      |-> FALSE]>>

\* The cases the waiting simulations have yet to store.
RECURSIVE Pending(_)
Pending(waiting) ==
    IF waiting = <<>> THEN 0
    ELSE (IF Head(waiting).stored THEN 0 ELSE 1)
         + Readable(Head(waiting).files) + Pending(Tail(waiting))

\* The cases stored, being run, or yet to be stored.
Followed ==
    Cardinality(DOMAIN workflow_history) + Pending(simulations)
        + (IF pc = "idle" THEN 0 ELSE 1)

\* POST /simulation/start up to the first case id, while it keeps the
\* cases followed within MaxAlerts: an empty selection is answered 400,
\* and a selection of unreadable files is answered without a case.
start_simulation(selected_files) ==
    /\ Followed + Readable(selected_files) <= MaxAlerts
    /\ simulations' =
           simulations \o simulation_loop(selected_files, 0, clock)
    /\ UNCHANGED <<llm, historical_data, clock, workflow_history, pc, state,
                   executed, retriever, requests, filtered_data, heap,
                   reviews>>

\* The simulation enters workflow.process_alert, which reads the clock
\* again for the state's timestamp, and awaits the run.
start_simulation_enter(i) ==
    /\ i \in 1..Len(simulations)
    /\ simulations[i].timestamp = NoTimestamp
    /\ simulations' = [simulations EXCEPT ![i].timestamp = clock]
    /\ UNCHANGED <<llm, historical_data, clock, workflow_history, pc, state,
                   executed, retriever, requests, filtered_data, heap,
                   reviews>>

\* A simulation's awaited run returns: workflow_history[case_id] = result.
start_simulation_store(i) ==
    /\ i \in 1..Len(simulations)
    /\ simulations[i].timestamp # NoTimestamp
    /\ ~simulations[i].stored
    /\ \E in \in SampleInputs :
          LET s == simulations[i]
              run == ainvoke(initial_state(s.log_content, s.case_id,
                                           s.timestamp), in)
          IN  /\ heap' = Append(heap,
                             process_alert_result(run.pc, run.state))
              /\ workflow_history' =
                     Store(workflow_history, s.case_id, Len(heap) + 1)
              /\ simulations' = [simulations EXCEPT ![i].stored = TRUE]
    /\ UNCHANGED <<llm, historical_data, clock, pc, state, executed,
                   retriever, requests, filtered_data, reviews>>

\* After the store results grows by one and the loop goes on: it reads
\* its next file and takes the next case id from the clock as it is then,
\* or ends.
start_simulation_next(i) ==
    /\ i \in 1..Len(simulations)
    /\ simulations[i].stored
    /\ simulations' =
           SubSeq(simulations, 1, i - 1)
           \o simulation_loop(simulations[i].files,
                              simulations[i].results + 1, clock)
           \o SubSeq(simulations, i + 1, Len(simulations))
    /\ UNCHANGED <<llm, historical_data, clock, workflow_history, pc, state,
                   executed, retriever, requests, filtered_data, heap,
                   reviews>>

\* ---------------------------------------------------------- initial state
Init ==
    /\ llm \in BOOLEAN
    /\ historical_data \in {0, MaxRows}
    /\ clock = 0
    /\ workflow_history = <<>>
    /\ pc = "idle"
    /\ state = initial_state("", PSA(0), 0)
    /\ executed = <<>>
    /\ RetrieverIdle
    /\ OthersIdle

\* ---------------------------------------------------------------- actions
Tick ==
    /\ clock < MaxClock
    /\ clock' = clock + 1
    /\ UNCHANGED <<llm, historical_data, workflow_history, pc, state, executed>>
    /\ UNCHANGED <<retriever, others>>

\* POST /process_alert up to the call of workflow.process_alert: a
\* request without alert text is answered 400, otherwise the case id is
\* the current second.
process_alert(alert_text) ==
    /\ pc = "idle"
    /\ Followed < MaxAlerts
    /\ alert_text # ""
    /\ requests' = <<[case_id    |-> PSA(clock),
                      timestamp  |-> NoTimestamp,
                      alert_text |-> alert_text,
                      done       |-> FALSE]>>
    /\ pc' = "process_alert"
    /\ UNCHANGED <<llm, historical_data, clock, workflow_history, state,
                   executed, retriever, filtered_data, simulations, heap,
                   reviews>>

\* workflow.process_alert up to ainvoke: the clock is read again for the
\* timestamp of the initial PSAState, and the graph enters at triage.
workflow_process_alert ==
    /\ pc = "process_alert"
    /\ state' = initial_state(requests[1].alert_text, requests[1].case_id,
                              clock)
    /\ executed' = <<>>
    /\ requests' = <<>>
    /\ pc' = "triage"
    /\ UNCHANGED <<llm, historical_data, clock, workflow_history,
                   retriever, filtered_data, simulations, heap, reviews>>

TriageStep ==
    /\ pc = "triage"
    /\ \E r \in TriageResponses :
          state' = _triage_node(state, r)
    /\ executed' = Append(executed, "triage")
    /\ pc' = _build_graph(_route_after_triage(state'))
    /\ UNCHANGED <<llm, historical_data, clock, workflow_history>>
    /\ UNCHANGED <<retriever, others>>

DiagnosticStep ==
    /\ pc = "diagnostic"
    /\ \E found \in BOOLEAN, r \in DiagnosticResponses :
          state' = _diagnostic_node(state, found, r)
    /\ executed' = Append(executed, "diagnostic")
    /\ pc' = _build_graph(_route_after_diagnostic(state'))
    /\ UNCHANGED <<llm, historical_data, clock, workflow_history>>
    /\ UNCHANGED <<retriever, others>>

PredictiveStep ==
    /\ pc = "predictive"
    /\ \E matched \in 0..historical_data, raises \in RaisePoints :
          state' = _predictive_node(state, matched, raises)
    /\ executed' = Append(executed, "predictive")
    /\ pc' = _build_graph(_route_after_predictive(state'))
    /\ UNCHANGED <<llm, historical_data, clock, workflow_history>>
    /\ UNCHANGED <<retriever, others>>

\* The node's own exception leaves the graph as a routing function's
\* does.
HumanReviewStep ==
    /\ pc = "human_review"
    /\ state' = IF _human_review_node_raises(state) THEN state
                ELSE _human_review_node(state)
    /\ executed' = Append(executed, "human_review")
    /\ pc' = IF _human_review_node_raises(state) THEN "raised"
             ELSE _build_graph(_route_after_human_review(state'))
    /\ UNCHANGED <<llm, historical_data, clock, workflow_history>>
    /\ UNCHANGED <<retriever, others>>

EscalationStep_ends_on_fault ==
    /\ pc = "escalation"
    /\ state' = _escalation_node(state)
    /\ executed' = Append(executed, "escalation")
    /\ pc' = IF state'.status = "error" THEN "END" ELSE "finalize"
    /\ UNCHANGED <<llm, historical_data, clock, workflow_history>>
    /\ UNCHANGED <<retriever, others>>

\* workflow.add_edge("escalation", "finalize"): the node catches its own
\* fault, so the edge is followed either way.
EscalationStep ==
    /\ pc = "escalation"
    /\ state' = _escalation_node(state)
    /\ executed' = Append(executed, "escalation")
    /\ pc' = "finalize"
    /\ UNCHANGED <<llm, historical_data, clock, workflow_history>>
    /\ UNCHANGED <<retriever, others>>

FinalizeStep ==
    /\ pc = "finalize"
    /\ state' = _finalize_node(state)
    /\ executed' = Append(executed, "finalize")
    /\ pc' = "END"
    /\ UNCHANGED <<llm, historical_data, clock, workflow_history>>
    /\ UNCHANGED <<retriever, others>>

\* ainvoke returned or raised: workflow.process_alert returns the final
\* state as a new dict, or the error dict of its except clause, and the
\* handler stores it: workflow_history[case_id] = result.
process_alert_return ==
    /\ pc \in {"END", "raised"}
    /\ heap' = Append(heap, process_alert_result(pc, state))
    /\ workflow_history' =
           Store(workflow_history, state.case_id, Len(heap) + 1)
    /\ pc' = "idle"
    /\ UNCHANGED <<llm, historical_data, clock, state, executed, retriever,
                   requests, filtered_data, simulations, reviews>>

\* The case ids review requests name: every id stored, and one that is
\* not (a second the clock does not reach).
ReviewIds == DOMAIN workflow_history \cup {PSA(MaxClock + 1)}

\* The review handlers run on the threads of the development server
\* (app.run), one per request, and work on the dict object they looked
\* up: each assignment to a key of it is a step of its own, which the
\* steps of other handlers precede or follow.  A handler is a record of
\* reviews: the object it holds (workflow_state) and the statement it
\* executes next, "return" once it has answered.
\* workflow_state[key] = value of the handler at position i.
Assign(i, key, value, next) ==
    /\ heap' = [heap EXCEPT ![reviews[i].workflow_state] =
                                SetKey(@, key, value)]
    /\ reviews' = [reviews EXCEPT ![i].next = next]
    /\ UNCHANGED workflow_history

\* workflow_history[case_id] = workflow_state, and the handler answers.
Restore(i) ==
    /\ workflow_history' = Store(workflow_history, reviews[i].case_id,
                                 reviews[i].workflow_state)
    /\ reviews' = [reviews EXCEPT ![i].next = "return"]
    /\ UNCHANGED heap

\* POST /workflow/<case_id>/approve up to its first assignment: an id
\* that is not stored is answered 404, else the handler looks the dict
\* up.
approve_workflow(case_id) ==
    /\ Len(reviews) < MaxReviews
    /\ Len(requests) + Len(reviews) < MaxHandlers
    /\ reviews' =
           IF case_id \notin DOMAIN workflow_history THEN reviews
           ELSE Append(reviews,
                       [handler        |-> "approve",
                        case_id        |-> case_id,
                        workflow_state |-> workflow_history[case_id],
                        rejection_reason |-> Absent,
                        next           |-> "human_approved"])
    /\ UNCHANGED <<llm, historical_data, clock, workflow_history, pc, state,
                   executed, retriever, requests, filtered_data,
                   simulations, heap>>

\* The next statement of an approve handler.  The test of the last stage
\* raises IndexError on a dict without execution_path (the error dict of
\* an aborted run) or with an empty one: the handler answers 500 and its
\* two assignments stay.
approve_workflow_step(i) ==
    /\ i \in 1..Len(reviews)
    /\ reviews[i].handler = "approve"
    /\ reviews[i].next # "return"
    /\ LET w == heap[reviews[i].workflow_state]
           execution_path == IF "execution_path" \in DOMAIN w
                             THEN w.execution_path ELSE <<>>
       IN  CASE reviews[i].next = "human_approved" ->
                  Assign(i, "human_approved", TRUE, "needs_human_review")
             [] reviews[i].next = "needs_human_review" ->
                  Assign(i, "needs_human_review", FALSE, "execution_path")
             [] reviews[i].next = "execution_path" ->
                  IF execution_path = <<>>
                  THEN /\ reviews' = [reviews EXCEPT ![i].next = "return"]
                       /\ UNCHANGED <<workflow_history, heap>>
                  ELSE IF Last(execution_path) = "human_review"
                  THEN Assign(i, "auto_escalate", TRUE, "status")
                  ELSE /\ reviews' = [reviews EXCEPT
                                         ![i].next = "workflow_history"]
                       /\ UNCHANGED <<workflow_history, heap>>
             [] reviews[i].next = "status" ->
                  Assign(i, "status", "approved", "workflow_history")
             [] reviews[i].next = "workflow_history" -> Restore(i)
    /\ UNCHANGED <<llm, historical_data, clock, pc, state, executed,
                   retriever, requests, filtered_data, simulations>>

\* POST /workflow/<case_id>/reject up to its first assignment.
reject_workflow(case_id, reason) ==
    /\ Len(reviews) < MaxReviews
    /\ Len(requests) + Len(reviews) < MaxHandlers
    /\ reviews' =
           IF case_id \notin DOMAIN workflow_history THEN reviews
           ELSE Append(reviews,
                       [handler        |-> "reject",
                        case_id        |-> case_id,
                        workflow_state |-> workflow_history[case_id],
                        rejection_reason |-> reason,
                        next           |-> "human_approved"])
    /\ UNCHANGED <<llm, historical_data, clock, workflow_history, pc, state,
                   executed, retriever, requests, filtered_data,
                   simulations, heap>>

\* The next statement of a reject handler.
reject_workflow_step(i) ==
    /\ i \in 1..Len(reviews)
    /\ reviews[i].handler = "reject"
    /\ reviews[i].next # "return"
    /\ CASE reviews[i].next = "human_approved" ->
               Assign(i, "human_approved", FALSE, "needs_human_review")
          [] reviews[i].next = "needs_human_review" ->
               Assign(i, "needs_human_review", FALSE, "status")
          [] reviews[i].next = "status" ->
               Assign(i, "status", "rejected", "rejection_reason")
          [] reviews[i].next = "rejection_reason" ->
               Assign(i, "rejection_reason", reviews[i].rejection_reason,
                      "workflow_history")
          [] reviews[i].next = "workflow_history" -> Restore(i)
    /\ UNCHANGED <<llm, historical_data, clock, pc, state, executed,
                   retriever, requests, filtered_data, simulations>>

Next ==
    \/ Tick
    \/ \E a \in AlertTexts : process_alert(a)
    \/ workflow_process_alert
    \/ TriageStep
    \/ DiagnosticStep
    \/ PredictiveStep
    \/ HumanReviewStep
    \/ EscalationStep
    \/ FinalizeStep
    \/ process_alert_return
    \/ \E files \in SelectedFiles : start_simulation(files)
    \/ \E i \in 1..MaxAlerts : start_simulation_enter(i)
    \/ \E i \in 1..MaxAlerts : start_simulation_store(i)
    \/ \E i \in 1..MaxAlerts : start_simulation_next(i)
    \/ \E c \in ReviewIds : approve_workflow(c)
    \/ \E i \in 1..MaxReviews : approve_workflow_step(i)
    \/ \E c \in ReviewIds : reject_workflow(c, "No reason provided")
    \/ \E i \in 1..MaxReviews : reject_workflow_step(i)

Spec == Init /\ [][Next]_vars

\* ------------------------------------------------- one graph run (RunSpec)
\* graph.ainvoke on its own: one run from the entry point, whose next
\* node is always eventually executed.  It starts where
\* workflow.process_alert has built the initial PSAState: the timestamp is
\* the current second, the case id a second not after it.
RunInit ==
    /\ llm \in BOOLEAN
    /\ historical_data \in {0, MaxRows}
    /\ clock \in 0..MaxClock
    /\ workflow_history = <<>>
    /\ pc = "triage"
    /\ \E a \in AlertTexts, second \in 0..clock :
          state = initial_state(a, PSA(second), clock)
    /\ executed = <<>>
    /\ RetrieverIdle
    /\ OthersIdle

RunNext ==
    \/ TriageStep
    \/ DiagnosticStep
    \/ PredictiveStep
    \/ HumanReviewStep
    \/ EscalationStep
    \/ FinalizeStep

RunSpec == RunInit /\ [][RunNext]_vars /\ WF_vars(RunNext)

\* ------------------------------------------ the decision policy on its own
\* The routing functions are pure functions of the state: RouteSpec draws
\* a state with arbitrary severity, confidence, risk and approval at one of
\* the four decision points and applies that point's conditional edge.
RouteSeverities == SeverityValues \cup {""}
RouteRisks      == {"", "low", "medium", "high"}

\* Modules a case can carry into the contact lookup: the four of the triage
\* prompt, the default of a missing key and the empty initial value.
LookupModules == {"CNTR", "VSL", "EDI/API", "Infra/SRE", "Unknown", ""}

RouteInit ==
    /\ llm = TRUE
    /\ historical_data = 0
    /\ clock = 0
    /\ workflow_history = <<>>
    /\ \/ /\ pc \in {"triage", "diagnostic", "predictive", "human_review"}
          /\ \E sv \in RouteSeverities, cs \in ConfidenceValues,
                rk \in RouteRisks, ha \in BOOLEAN :
                state = [initial_state("", PSA(0), 0) EXCEPT !.severity = sv,
                                                     !.confidence_score = cs,
                                                     !.risk_assessment = rk,
                                                     !.human_approved = ha]
       \/ /\ pc = "lookup"
          /\ \E m \in LookupModules :
                state = [initial_state("", PSA(0), 0) EXCEPT !.module = m]
    /\ executed = <<>>
    /\ RetrieverIdle
    /\ OthersIdle

Decide(node, label) ==
    /\ pc = node
    /\ executed = <<>>
    /\ executed' = <<node>>
    /\ pc' = _build_graph(label)
    /\ UNCHANGED <<llm, historical_data, clock, workflow_history, state>>
    /\ UNCHANGED <<retriever, others>>

DecideAfterTriage == Decide("triage", _route_after_triage(state))

DecideAfterDiagnostic == Decide("diagnostic", _route_after_diagnostic(state))

DecideAfterPredictive == Decide("predictive", _route_after_predictive(state))

DecideAfterHumanReview ==
    Decide("human_review", _route_after_human_review(state))

\* The directory lookup of the escalation builder, applied on its own.
LookupContact ==
    /\ pc = "lookup"
    /\ state' = [state EXCEPT !.escalation_contact =
                                  _get_escalation_contact(state.module)]
    /\ executed' = <<"lookup">>
    /\ pc' = "looked_up"
    /\ UNCHANGED <<llm, historical_data, clock, workflow_history>>
    /\ UNCHANGED <<retriever, others>>

RouteNext ==
    \/ LookupContact
    \/ DecideAfterTriage
    \/ DecideAfterDiagnostic
    \/ DecideAfterPredictive
    \/ DecideAfterHumanReview

RouteSpec == RouteInit /\ [][RouteNext]_vars

\* ---------------------------- the run after the predictive stage (RiskSpec)
\* The stages that follow predictive are functions of what the run has
\* recorded.  RiskSpec starts where the predictive node has returned:
\* triage and diagnostic have run as the code runs them and their edges
\* have led to predictive, and the risk label recorded is any of
\* RouteRisks.  ("low" is the label of the specification's scenario; the
\* case-log analysis of this code reports "medium" or "high" only.)
RiskInit ==
    /\ llm \in BOOLEAN
    /\ historical_data \in {0, MaxRows}
    /\ clock = 0
    /\ workflow_history = <<>>
    /\ \E a \in AlertTexts, in \in RunInputs, rk \in RouteRisks :
          LET t == _triage_node(initial_state(a, PSA(0), 0), in.triage)
              d == _diagnostic_node(t, in.found, in.diagnostic)
              p == _predictive_node(d, in.matched, in.raises)
          IN  /\ _route_after_triage(t) = "diagnostic"
              /\ _route_after_diagnostic(d) = "predictive"
              /\ state = [p EXCEPT !.risk_assessment = rk]
    /\ executed = <<"triage", "diagnostic", "predictive">>
    /\ pc = _build_graph(_route_after_predictive(state))
    /\ RetrieverIdle
    /\ OthersIdle

RiskNext ==
    \/ HumanReviewStep
    \/ EscalationStep
    \/ FinalizeStep

RiskSpec == RiskInit /\ [][RiskNext]_vars

\* ------------------------------------------------------ hybrid retriever
\* Distances the evidence store reports, in tenths.
Distances == {2, 6}

\* The answer of one collection.query call: it raised (ok = FALSE) or it
\* returned documents, nearest first.
Failed == [ok |-> FALSE, docs |-> <<>>]

RECURSIVE TopN(_, _, _)
\* The n documents of S nearest under the distance function d.
TopN(d, S, n) ==
    IF n = 0 \/ S = {} THEN <<>>
    ELSE LET m == CHOOSE x \in S :
                    \A y \in S : d[x] < d[y] \/ (d[x] = d[y] /\ x <= y)
         IN  <<[id |-> m, distance |-> d[m]]>> \o TopN(d, S \ {m}, n - 1)

\* What a query for n results can answer over the documents S.
Answers(S, n) ==
    {Failed} \cup {[ok |-> TRUE, docs |-> TopN(d, S, n)] :
                     d \in [S -> Distances]}

\* A query constrained to the documents that contain the keyword string.
ConstrainedAnswers(S, n) ==
    {Failed} \cup UNION {{[ok |-> TRUE, docs |-> TopN(d, K, n)] :
                            d \in [K -> Distances]} : K \in SUBSET S}

\* One entry of the retriever's result list.
Sop(doc, search_type) ==
    [id |-> doc.id, distance |-> doc.distance, search_type |-> search_type,
     relevance_score |-> ScoreOne - doc.distance]

Tagged(docs, search_type) ==
    [i \in 1..Len(docs) |-> Sop(docs[i], search_type)]

Query(kind, n, ok) == [kind |-> kind, n_results |-> n, ok |-> ok]

Ids(sops) == {sops[i].id : i \in 1..Len(sops)}

RECURSIVE Concat(_)
Concat(seqs) ==
    IF seqs = <<>> THEN <<>> ELSE Head(seqs) \o Concat(Tail(seqs))

RECURSIVE UntilFailure(_)
\* The answers up to and including the first that raised.
UntilFailure(ent) ==
    IF ent = <<>> THEN <<>>
    ELSE IF ~Head(ent).ok THEN <<Head(ent)>>
    ELSE <<Head(ent)>> \o UntilFailure(Tail(ent))

\* A per-entity fallback that gives up at the first entity query that
\* raises.
KeywordSearch_stops_at_failure(ents, kw, ent) ==
    IF ents = <<>> THEN [sops |-> <<>>, queries |-> <<>>]
    ELSE IF kw.ok
    THEN [sops |-> Tagged(kw.docs, "keyword"),
          queries |-> <<Query("keyword", KeywordResults, TRUE)>>]
    ELSE LET made == UntilFailure(ent)
         IN  [sops |-> Concat([i \in 1..Len(made) |->
                                  Tagged(made[i].docs, "keyword")]),
              queries |-> <<Query("keyword", KeywordResults, FALSE)>>
                          \o [i \in 1..Len(made) |->
                                Query("entity", EntityResults, made[i].ok)]]

\* Step 2: the constrained query, or one query per entity when it raises;
\* an entity whose query raises is skipped.
KeywordSearch(ents, kw, ent) ==
    IF ents = <<>> THEN [sops |-> <<>>, queries |-> <<>>]
    ELSE IF kw.ok
    THEN [sops |-> Tagged(kw.docs, "keyword"),
          queries |-> <<Query("keyword", KeywordResults, TRUE)>>]
    ELSE [sops |-> Concat([i \in 1..Len(ents) |->
                              Tagged(ent[i].docs, "keyword")]),
          queries |-> <<Query("keyword", KeywordResults, FALSE)>>
                      \o [i \in 1..Len(ents) |->
                            Query("entity", EntityResults, ent[i].ok)]]

RECURSIVE AppendUnseen(_, _)
\* for sop in sops: if sop['id'] not in seen_ids: combined.append(sop)
AppendUnseen(combined, sops) ==
    IF sops = <<>> THEN combined
    ELSE AppendUnseen(IF Head(sops).id \in Ids(combined) THEN combined
                      ELSE Append(combined, Head(sops)),
                      Tail(sops))

Combine_keeps_duplicates(semantic, keyword) ==
    AppendUnseen(<<>>, semantic) \o keyword

\* Step 3: semantic results first, then the keyword results not yet seen.
Combine(semantic, keyword) ==
    AppendUnseen(AppendUnseen(<<>>, semantic), keyword)

RECURSIVE InsertByRelevance(_, _)
\* Insert sop behind every entry whose score is at least its own.
InsertByRelevance(sorted, sop) ==
    IF sorted = <<>> THEN <<sop>>
    ELSE IF Head(sorted).relevance_score >= sop.relevance_score
    THEN <<Head(sorted)>> \o InsertByRelevance(Tail(sorted), sop)
    ELSE <<sop>> \o sorted

RECURSIVE InsertBeforeEqual(_, _)
InsertBeforeEqual(sorted, sop) ==
    IF sorted = <<>> THEN <<sop>>
    ELSE IF Head(sorted).relevance_score > sop.relevance_score
    THEN <<Head(sorted)>> \o InsertBeforeEqual(Tail(sorted), sop)
    ELSE <<sop>> \o sorted

RECURSIVE SortTiesReversed(_)
SortTiesReversed(sops) ==
    IF sops = <<>> THEN <<>>
    ELSE InsertBeforeEqual(SortTiesReversed(SubSeq(sops, 1, Len(sops) - 1)),
                           sops[Len(sops)])

RECURSIVE StableSortDescending(_)
\* Insertion of the entries in list order: a stable descending sort.
StableSortDescending(sops) ==
    IF sops = <<>> THEN <<>>
    ELSE InsertByRelevance(StableSortDescending(SubSeq(sops, 1, Len(sops) - 1)),
                           sops[Len(sops)])

\* A descending sort that places equal scores in reverse order.
SortByRelevance_ties_reversed(sops) == SortTiesReversed(sops)

\* Step 4: combined_sops.sort(key=relevance_score, reverse=True), a stable
\* sort: equal scores keep their order.
SortByRelevance(sops) == StableSortDescending(sops)

_fallback_search_semantic_tag(fb) ==
    [candidate_sops |-> Tagged(fb.docs, "semantic"),
     semantic_sops  |-> <<>>,
     keyword_sops   |-> <<>>,
     queries        |-> <<Query("fallback", FallbackResults, fb.ok)>>]

\* The except branch: one plain query; [] when that raises as well.
_fallback_search(fb) ==
    [candidate_sops |-> Tagged(fb.docs, "fallback"),
     semantic_sops  |-> <<>>,
     keyword_sops   |-> <<>>,
     queries        |-> <<Query("fallback", FallbackResults, fb.ok)>>]

\* The try block once the collection is known to exist.  sem, kw, ent[i]
\* and fb are the store's answers to the semantic, constrained, per-entity
\* and retry queries (each used only if that query is made).
HybridSearch(ents, sem, kw, ent, fb) ==
    IF ~sem.ok
    THEN LET f == _fallback_search(fb)
         IN  [f EXCEPT !.queries =
                  <<Query("semantic", SemanticResults, FALSE)>> \o @]
    ELSE LET semantic == Tagged(sem.docs, "semantic")
             keyword  == KeywordSearch(ents, kw, ent)
         IN  [candidate_sops |->
                  SortByRelevance(Combine(semantic, keyword.sops)),
              semantic_sops  |-> semantic,
              keyword_sops   |-> keyword.sops,
              queries        |->
                  <<Query("semantic", SemanticResults, TRUE)>>
                  \o keyword.queries]

_retrieve_candidate_sops_unchecked(module, ents, sem, kw, ent, fb) ==
    HybridSearch(ents, sem, kw, ent, fb)

_retrieve_candidate_sops(module, ents, sem, kw, ent, fb) ==
    IF module \notin DOMAIN collections
    THEN [candidate_sops |-> <<>>, semantic_sops |-> <<>>,
          keyword_sops |-> <<>>, queries |-> <<>>]
    ELSE HybridSearch(ents, sem, kw, ent, fb)

\* llm.invoke calls of one diagnostic stage: only with an llm and with
\* candidates.
_diagnostic_llm_calls(found) == IF llm /\ found THEN 1 ELSE 0

\* ---- the diagnostic stage with its retrieval spelled out
EntityNames == <<"CMAU1234567", "EDI_ERR_1", "REF-IFT-0007", "MV LION">>

RetrieveModules == {"CNTR", "Unknown"}

RetrieveInit ==
    /\ llm \in BOOLEAN
    /\ historical_data = 0
    /\ clock = 0
    /\ workflow_history = <<>>
    /\ pc = "retrieve"
    /\ \E m \in RetrieveModules, k \in 0..MaxEntities :
          state = [initial_state("", PSA(0), 0) EXCEPT
                      !.severity = "high", !.module = m,
                      !.entities = SubSeq(EntityNames, 1, k),
                      !.execution_path = <<"triage">>]
    /\ executed = <<"triage">>
    /\ \E n \in 0..MaxDocs : collections = [m \in {"CNTR"} |-> n]
    /\ entities = <<>>
    /\ semantic_sops = <<>>
    /\ keyword_sops = <<>>
    /\ candidate_sops = <<>>
    /\ queries = <<>>
    /\ llm_calls = 0
    /\ OthersIdle

Retrieved(sem, kw, ent, fb) ==
    LET r == _retrieve_candidate_sops(state.module, state.entities,
                                      sem, kw, ent, fb)
    IN  /\ candidate_sops' = r.candidate_sops
        /\ semantic_sops' = r.semantic_sops
        /\ keyword_sops' = r.keyword_sops
        /\ queries' = r.queries

\* entities = state.get("entities", []); candidate_sops =
\* self._retrieve_candidate_sops(alert_text, module, entities), the store
\* answering each query that is made.
Retrieve ==
    /\ pc = "retrieve"
    /\ entities' = state.entities
    /\ LET S == IF state.module \in DOMAIN collections
                THEN 1..collections[state.module] ELSE {}
           E == [i \in 1..Len(state.entities) |-> Failed]
       IN  IF state.module \notin DOMAIN collections
           THEN Retrieved(Failed, Failed, E, Failed)
           ELSE \E sem \in Answers(S, SemanticResults) :
                  IF ~sem.ok
                  THEN \E fb \in Answers(S, FallbackResults) :
                          Retrieved(sem, Failed, E, fb)
                  ELSE IF state.entities = <<>>
                  THEN Retrieved(sem, Failed, E, Failed)
                  ELSE \E kw \in ConstrainedAnswers(S, KeywordResults) :
                          IF kw.ok
                          THEN Retrieved(sem, kw, E, Failed)
                          ELSE \E ent \in [1..Len(state.entities) ->
                                             Answers(S, EntityResults)] :
                                  Retrieved(sem, kw, ent, Failed)
    /\ pc' = "diagnose"
    /\ UNCHANGED <<llm, historical_data, clock, workflow_history, state,
                   executed, collections, llm_calls, others>>

\* The rest of the diagnostic node, on the candidates retrieved.
Diagnose ==
    /\ pc = "diagnose"
    /\ \E r \in DiagnosticResponses :
          state' = _diagnostic_node(state, candidate_sops # <<>>, r)
    /\ llm_calls' = llm_calls + _diagnostic_llm_calls(candidate_sops # <<>>)
    /\ executed' = Append(executed, "diagnostic")
    /\ pc' = "diagnosed"
    /\ UNCHANGED <<llm, historical_data, clock, workflow_history,
                   collections, entities, semantic_sops, keyword_sops,
                   candidate_sops, queries, others>>

RetrieveNext ==
    \/ Retrieve
    \/ Diagnose

RetrieveSpec == RetrieveInit /\ [][RetrieveNext]_vars

\* ------------------------------------------- concurrent requests (CaseSpec)
\* Several /process_alert handlers are in progress at once.  A handler
\* takes its case id from the clock, enters workflow.process_alert, which
\* takes the timestamp, awaits the graph run and then stores the result
\* under that id; other handlers, simulations and reviews among them, run
\* in between.
CaseAlerts == {"CRITICAL: Database connection failed, all services down",
               "INFO: System maintenance completed successfully"}

CaseInit ==
    /\ llm = FALSE
    /\ historical_data = 0
    /\ clock = 0
    /\ workflow_history = <<>>
    /\ pc = "idle"
    /\ state = initial_state("", PSA(0), 0)
    /\ executed = <<>>
    /\ RetrieverIdle
    /\ OthersIdle

\* POST /process_alert up to the call of workflow.process_alert:
\* case_id = PSA-<now, to the second>.
process_alert_begin(alert_text) ==
    /\ Len(requests) < MaxRequests
    /\ Len(requests) + Len(reviews) < MaxHandlers
    /\ alert_text # ""
    /\ requests' = Append(requests, [case_id |-> PSA(clock),
                                     timestamp |-> NoTimestamp,
                                     alert_text |-> alert_text,
                                     done |-> FALSE])
    /\ UNCHANGED <<llm, historical_data, clock, workflow_history, pc, state,
                   executed, retriever, filtered_data, simulations, heap,
                   reviews>>

\* workflow.process_alert up to the await: the clock is read again for
\* the state's timestamp.
process_alert_enter(i) ==
    /\ i \in 1..Len(requests)
    /\ requests[i].timestamp = NoTimestamp
    /\ requests' = [requests EXCEPT ![i].timestamp = clock]
    /\ UNCHANGED <<llm, historical_data, clock, workflow_history, pc, state,
                   executed, retriever, filtered_data, simulations, heap,
                   reviews>>

\* The awaited run and workflow_history[case_id] = result.
process_alert_store(i) ==
    /\ i \in 1..Len(requests)
    /\ requests[i].timestamp # NoTimestamp
    /\ ~requests[i].done
    /\ \E in \in SampleInputs :
          LET run == ainvoke(initial_state(requests[i].alert_text,
                                           requests[i].case_id,
                                           requests[i].timestamp), in)
          IN  heap' = Append(heap, process_alert_result(run.pc, run.state))
    /\ workflow_history' =
           Store(workflow_history, requests[i].case_id, Len(heap) + 1)
    /\ requests' = [requests EXCEPT ![i].done = TRUE]
    /\ UNCHANGED <<llm, historical_data, clock, pc, state, executed,
                   retriever, filtered_data, simulations, reviews>>

CaseNext ==
    \/ Tick
    \/ \E a \in CaseAlerts : process_alert_begin(a)
    \/ \E i \in 1..MaxRequests : process_alert_enter(i)
    \/ \E i \in 1..MaxRequests : process_alert_store(i)
    \/ \E files \in SelectedFiles : start_simulation(files)
    \/ \E i \in 1..MaxAlerts : start_simulation_enter(i)
    \/ \E i \in 1..MaxAlerts : start_simulation_store(i)
    \/ \E i \in 1..MaxAlerts : start_simulation_next(i)
    \/ \E c \in ReviewIds : approve_workflow(c)
    \/ \E i \in 1..MaxReviews : approve_workflow_step(i)
    \/ \E c \in ReviewIds : reject_workflow(c, "No reason provided")
    \/ \E i \in 1..MaxReviews : reject_workflow_step(i)

CaseSpec == CaseInit /\ [][CaseNext]_vars

\* ------------------------------------ the predictive stage (PredictSpec)
\* The stage applied to a diagnosed case, for every size of the case log
\* and every number of rows the filter can keep.
PredictInit ==
    /\ llm \in BOOLEAN
    /\ historical_data \in 0..MaxRows
    /\ clock = 0
    /\ workflow_history = <<>>
    /\ pc = "predictive"
    /\ \E sv \in RouteSeverities :
          state = [initial_state("", PSA(0), 0) EXCEPT
                      !.severity = sv,
                      !.confidence_score = DefaultConfidence,
                      !.execution_path = <<"triage", "diagnostic">>]
    /\ executed = <<"triage", "diagnostic">>
    /\ RetrieverIdle
    /\ OthersIdle

\* _predictive_node and its edge; filtered_data records how many rows the
\* filter kept, when it ran and did not raise (the summary may still).
Predict ==
    /\ pc = "predictive"
    /\ \E matched \in 0..historical_data, raises \in RaisePoints :
          /\ state' = _predictive_node(state, matched, raises)
          /\ filtered_data' = IF historical_data = 0 \/ raises = "filter"
                              THEN NoFilter ELSE matched
    /\ executed' = Append(executed, "predictive")
    /\ pc' = _build_graph(_route_after_predictive(state'))
    /\ UNCHANGED <<llm, historical_data, clock, workflow_history, retriever,
                   requests, simulations, heap, reviews>>

PredictNext == Predict

PredictSpec == PredictInit /\ [][PredictNext]_vars

\* ------------------------- the fallback classifiers (ClassifySpec)
\* A text is the sequence of its characters, taken from Latin-1.
AsciiUpperCase ==
    <<"A", "B", "C", "D", "E", "F", "G", "H", "I", "J", "K", "L", "M", "N",
      "O", "P", "Q", "R", "S", "T", "U", "V", "W", "X", "Y", "Z">>

AsciiLowerCase ==
    <<"a", "b", "c", "d", "e", "f", "g", "h", "i", "j", "k", "l", "m", "n",
      "o", "p", "q", "r", "s", "t", "u", "v", "w", "x", "y", "z">>

\* The other letters str.lower() changes: U+00C0..U+00DE without U+00D7.
LatinUpperCase ==
    <<"À", "Á", "Â", "Ã", "Ä", "Å", "Æ", "Ç", "È", "É", "Ê", "Ë", "Ì", "Í",
      "Î", "Ï", "Ð", "Ñ", "Ò", "Ó", "Ô", "Õ", "Ö", "Ø", "Ù", "Ú", "Û", "Ü",
      "Ý", "Þ">>

LatinLowerCase ==
    <<"à", "á", "â", "ã", "ä", "å", "æ", "ç", "è", "é", "ê", "ë", "ì", "í",
      "î", "ï", "ð", "ñ", "ò", "ó", "ô", "õ", "ö", "ø", "ù", "ú", "û", "ü",
      "ý", "þ">>

UpperCase == AsciiUpperCase \o LatinUpperCase

LowerCase == AsciiLowerCase \o LatinLowerCase

\* str.lower(), character by character.
lower_char(c) ==
    IF \E i \in 1..Len(UpperCase) : UpperCase[i] = c
    THEN LowerCase[CHOOSE i \in 1..Len(UpperCase) : UpperCase[i] = c]
    ELSE c

lower(text) == [i \in 1..Len(text) |-> lower_char(text[i])]

\* keyword in text: the keyword occurs as a substring.
Contains(text, keyword) ==
    \E i \in 1..(Len(text) - Len(keyword) + 1) :
        SubSeq(text, i, i + Len(keyword) - 1) = keyword

\* any(keyword in text for keyword in keywords)
any_keyword(text, keywords) == \E k \in keywords : Contains(text, k)

\* app.py line 317
HighKeywords ==
    {<<"c", "r", "i", "t", "i", "c", "a", "l">>,
     <<"u", "r", "g", "e", "n", "t">>,
     <<"i", "m", "m", "e", "d", "i", "a", "t", "e">>,
     <<"d", "o", "w", "n">>,
     <<"f", "a", "i", "l", "e", "d">>,
     <<"e", "r", "r", "o", "r">>}

\* app.py line 320
MediumKeywords ==
    {<<"w", "a", "r", "n", "i", "n", "g">>,
     <<"i", "s", "s", "u", "e">>,
     <<"p", "r", "o", "b", "l", "e", "m">>}

\* app.py line 323
LowKeywords ==
    {<<"i", "n", "f", "o">>,
     <<"i", "n", "f", "o", "r", "m", "a", "t", "i", "o", "n">>,
     <<"n", "o", "t", "i", "c", "e">>}

\* app.py line 281
ContainerKeywords ==
    {<<"c", "o", "n", "t", "a", "i", "n", "e", "r">>,
     <<"c", "m", "a", "u">>,
     <<"m", "s", "c", "u">>,
     <<"c", "n", "t", "r", "_", "n", "o">>,
     <<"d", "u", "p", "l", "i", "c", "a", "t", "e">>,
     <<"i", "d", "e", "n", "t", "i", "c", "a", "l", " ", "c", "o", "n", "t", "a", "i", "n", "e", "r", "s">>,
     <<"b", "a", "y">>,
     <<"s", "l", "o", "t", "s">>}

\* app.py line 289
VesselKeywords ==
    {<<"v", "e", "s", "s", "e", "l">>,
     <<"m", "v">>,
     <<"v", "e", "s", "s", "e", "l", " ", "a", "d", "v", "i", "c", "e">>,
     <<"v", "e", "s", "s", "e", "l", "_", "e", "r", "r", "_", "4">>,
     <<"s", "y", "s", "t", "e", "m", " ", "v", "e", "s", "s", "e", "l", " ", "n", "a", "m", "e">>,
     <<"b", "a", "p", "l", "i", "e">>,
     <<"c", "o", "a", "r", "r", "i">>,
     <<"t", "e", "r", "m", "i", "n", "a", "l">>,
     <<"l", "o", "a", "d", " ", "c", "o", "m", "p", "l", "e", "t", "e", "d">>}

\* app.py line 297
MessageKeywords ==
    {<<"e", "d", "i">>,
     <<"m", "e", "s", "s", "a", "g", "e">>,
     <<"r", "e", "f", "-", "i", "f", "t">>,
     <<"s", "t", "u", "c", "k", " ", "i", "n", " ", "e", "r", "r", "o", "r">>,
     <<"a", "c", "k", "n", "o", "w", "l", "e", "d", "g", "m", "e", "n", "t">>,
     <<"a", "c", "k", "_", "a", "t", " ", "i", "s", " ", "n", "u", "l", "l">>,
     <<"c", "o", "r", "r", "e", "l", "a", "t", "i", "o", "n", "_", "i", "d">>,
     <<"h", "t", "t", "p", "s", "t", "a", "t", "u", "s">>}

\* app.py line 305
InfrastructureKeywords ==
    {<<"d", "a", "t", "a", "b", "a", "s", "e">>,
     <<"c", "o", "n", "n", "e", "c", "t", "i", "o", "n">>,
     <<"t", "i", "m", "e", "o", "u", "t">>,
     <<"s", "e", "r", "v", "i", "c", "e">>,
     <<"s", "y", "s", "t", "e", "m">>,
     <<"i", "n", "f", "r", "a", "s", "t", "r", "u", "c", "t", "u", "r", "e">>}

\* The character classes of the regular expressions: [A-Z], \d and \s
\* (space, the controls U+0009..U+000D and U+001C..U+001F, U+0085, U+00A0).
Capitals == Range(AsciiUpperCase)

Digits == {"0", "1", "2", "3", "4", "5", "6", "7", "8", "9"}

Whitespace == {"\t", "\n", "", "\f", "\r", "", "", "", "", " ", "", " "}

\* text[i:j+1], empty when it would pass the end of the text.
Slice(text, i, j) == IF j <= Len(text) THEN SubSeq(text, i, j) ELSE <<>>

\* The length of the longest run of characters of a class from position i.
RECURSIVE Run(_, _, _)
Run(text, i, class) ==
    IF i > Len(text) \/ text[i] \notin class THEN 0
    ELSE 1 + Run(text, i + 1, class)

\* re.match of a pattern at position i: the position of the last character
\* matched, or 0.  Each pattern is greedy, and a shorter repetition never
\* helps it: the character after a repetition is outside its class,
\* except that in MV\s+[A-Z\s]+ the second class holds the first and in
\* [A-Z_]+_ERR_\d+ the class holds the literal that follows.
\*   "container" [CM]MAU\d+|[CM]SCU\d+      "vessel" MV\s+[A-Z\s]+
\*   "message"   REF-[A-Z]+-\d+             "error"  [A-Z_]+_ERR_\d+
MatchEnd(pattern, text, i) ==
    CASE pattern = "container" ->
           LET d == Run(text, i + 4, Digits)
           IN  IF /\ text[i] \in {"C", "M"}
                  /\ Slice(text, i + 1, i + 3) \in {<<"M", "A", "U">>,
                                                  <<"S", "C", "U">>}
                  /\ d >= 1
               THEN i + 3 + d ELSE 0
      [] pattern = "vessel" ->
           LET r == Run(text, i + 2, Capitals \cup Whitespace)
           IN  IF /\ Slice(text, i, i + 1) = <<"M", "V">>
                  /\ r >= 2
                  /\ text[i + 2] \in Whitespace
               THEN i + 1 + r ELSE 0
      [] pattern = "message" ->
           LET u == Run(text, i + 4, Capitals)
               d == Run(text, i + 5 + u, Digits)
           IN  IF /\ Slice(text, i, i + 3) = <<"R", "E", "F", "-">>
                  /\ u >= 1
                  /\ Slice(text, i + 4 + u, i + 4 + u) = <<"-">>
                  /\ d >= 1
               THEN i + 4 + u + d ELSE 0
      [] pattern = "error" ->
           LET r == Run(text, i, Capitals \cup {"_"})
               d == Run(text, i + r, Digits)
           IN  IF /\ r >= 6
                  /\ SubSeq(text, i + r - 5, i + r - 1) = <<"_", "E", "R", "R", "_">>
                  /\ d >= 1
               THEN i + r - 1 + d ELSE 0

\* re.findall(pattern, text) from position i on: the matches from left to
\* right, each search starting where the last match ended.
RECURSIVE findall(_, _, _)
findall(pattern, text, i) ==
    IF i > Len(text) THEN <<>>
    ELSE LET e == MatchEnd(pattern, text, i)
         IN  IF e = 0 THEN findall(pattern, text, i + 1)
             ELSE <<SubSeq(text, i, e)>> \o findall(pattern, text, e + 1)

\* entities[:5]
MaxEntitiesReturned == 5

\* app.py's fallback_triage_agent.
fallback_triage_agent(alert_text) ==
    LET text_lower == lower(alert_text)
        module ==
            IF any_keyword(text_lower, ContainerKeywords) THEN "CNTR"
            ELSE IF any_keyword(text_lower, VesselKeywords) THEN "VSL"
            ELSE IF any_keyword(text_lower, MessageKeywords) THEN "EDI/API"
            ELSE IF any_keyword(text_lower, InfrastructureKeywords)
            THEN "Infra/SRE"
            ELSE "Unknown"
        of_module ==
            CASE module = "CNTR"    -> findall("container", alert_text, 1)
              [] module = "VSL"     -> findall("vessel", alert_text, 1)
              [] module = "EDI/API" -> findall("message", alert_text, 1)
              [] OTHER              -> <<>>
        extracted == of_module \o findall("error", alert_text, 1)
        level == IF any_keyword(text_lower, HighKeywords) THEN "high"
                 ELSE IF any_keyword(text_lower, MediumKeywords) THEN "medium"
                 ELSE IF any_keyword(text_lower, LowKeywords) THEN "low"
                 ELSE "medium"
    IN  [module     |-> module,
         entities   |-> SubSeq(extracted, 1,
                               IF Len(extracted) < MaxEntitiesReturned
                               THEN Len(extracted) ELSE MaxEntitiesReturned),
         alert_type |-> IF Contains(text_lower, <<"e", "r", "r", "o", "r">>)
                        THEN "error"
                        ELSE IF Contains(text_lower, <<"w", "a", "r", "n", "i", "n", "g">>)
                        THEN "warning" ELSE "info",
         severity   |-> level,
         urgency    |-> level]

\* Words of the alerts classified, in the case they are written in.
AlertWords ==
    {<<"C", "R", "I", "T", "I", "C", "A", "L">>,
     <<"s", "h", "u", "t", "d", "o", "w", "n">>,
     <<"F", "a", "i", "l", "e", "d">>,
     <<"w", "a", "r", "n", "i", "n", "g">>,
     <<"I", "s", "s", "u", "e">>,
     <<"I", "N", "F", "O">>,
     <<"n", "o", "t", "i", "c", "e">>,
     <<"i", "m", "m", "e", "d", "i", "a", "t", "e">>,
     <<"v", "e", "s", "s", "e", "l">>,
     <<"D", "a", "t", "a", "b", "a", "s", "e">>,
     <<"C", "M", "A", "U", "1", "2", "3", "4", "5", "6", "7">>,
     <<"M", "V">>,
     <<"R", "E", "F", "-", "I", "F", "T", "-", "0", "0", "0", "7">>,
     <<"V", "E", "S", "S", "E", "L", "_", "E", "R", "R", "_", "4">>,
     <<"I", "N", "F", "O", "R", "M", "A", "C", "I", "Ó", "N">>}

RECURSIVE JoinWords(_)
\* The words separated by single spaces.
JoinWords(words) ==
    IF words = <<>> THEN <<>>
    ELSE IF Len(words) = 1 THEN words[1]
    ELSE words[1] \o <<" ">> \o JoinWords(Tail(words))

ClassifiedTexts ==
    {JoinWords(ws) : ws \in UNION {[1..n -> AlertWords] : n \in 0..MaxWords}}

ClassifyInit ==
    /\ llm = FALSE
    /\ historical_data = 0
    /\ clock = 0
    /\ workflow_history = <<>>
    /\ pc = "classify"
    /\ \E text \in ClassifiedTexts : state = initial_state(text, PSA(0), 0)
    /\ executed = <<>>
    /\ RetrieverIdle
    /\ OthersIdle

\* app.py: the keyword classifier applied to the alert.
ClassifyByKeywords ==
    /\ pc = "classify"
    /\ LET r == fallback_triage_agent(state.alert_text)
       IN  state' = [state EXCEPT !.severity = r.severity,
                                  !.urgency = r.urgency,
                                  !.module = r.module,
                                  !.entities = r.entities]
    /\ executed' = <<"fallback_triage_agent">>
    /\ pc' = "classified"
    /\ UNCHANGED <<llm, historical_data, clock, workflow_history>>
    /\ UNCHANGED <<retriever, others>>

\* langgraph_workflow.py: the triage node of a workflow without an llm,
\* which classifies with _fallback_triage.
TriageWithoutLlm ==
    /\ pc = "classify"
    /\ ~llm
    /\ state' = _triage_node(state, _fallback_triage)
    /\ executed' = <<"triage">>
    /\ pc' = "classified"
    /\ UNCHANGED <<llm, historical_data, clock, workflow_history>>
    /\ UNCHANGED <<retriever, others>>

ClassifyNext ==
    \/ ClassifyByKeywords
    \/ TriageWithoutLlm

ClassifySpec == ClassifyInit /\ [][ClassifyNext]_vars

\* ------------------------------------------------------------ properties
Escalating == {"critical", "high"}

\* C1: leaving the triage stage, the next stage depends on severity alone:
\* "low" ends the run, critical/high go to diagnostic, anything else
\* (medium, empty, unrecognised) goes to human review.
C1_RouteAfterTriage ==
    [][pc = "triage" /\ pc' # "triage" =>
         pc' = IF state'.severity = "low" THEN "END"
               ELSE IF state'.severity \in Escalating THEN "diagnostic"
               ELSE "human_review"]_vars

C1_Witness ==
    /\ executed = <<"triage">>
    /\ state.severity = ""
    /\ pc = "human_review"

\* C2: leaving the diagnostic stage, confidence strictly below 0.3 goes to
\* human review; otherwise critical/high with confidence strictly above 0.7
\* goes to escalation; otherwise predictive.
C2_RouteAfterDiagnostic ==
    [][pc = "diagnostic" /\ pc' # "diagnostic" =>
         pc' = IF state'.confidence_score < 3 THEN "human_review"
               ELSE IF state'.severity \in Escalating
                       /\ state'.confidence_score > 7 THEN "escalation"
               ELSE "predictive"]_vars

C2_Witness ==
    /\ executed = <<"diagnostic">>
    /\ state.severity = "critical"
    /\ state.confidence_score \in {3, 7}
    /\ pc = "predictive"

\* C3: leaving the predictive stage, the case goes to escalation exactly
\* when risk is "high" and severity is critical/high, else to human review.
C3_RouteAfterPredictive ==
    [][pc = "predictive" /\ pc' # "predictive" =>
         /\ pc' \in {"escalation", "human_review"}
         /\ pc' = "escalation" <=>
               (state'.risk_assessment = "high"
                /\ state'.severity \in Escalating)]_vars

C3_Witness ==
    /\ executed = <<"predictive">>
    /\ state.risk_assessment = "high"
    /\ state.severity = "medium"
    /\ pc = "human_review"

\* C4: when a run has ended, execution_path is the list of the stages that
\* were executed, a stage that faulted part-way included.
C4_PathIsExecuted ==
    pc = "END" => state.execution_path = executed

\* C5: a non-empty execution_path starts with "triage" and keeps the
\* causal order of the stages, also when triage itself faults.
C5_TriageFirst ==
    state.execution_path # <<>> =>
        /\ state.execution_path[1] = "triage"
        /\ Before(state.execution_path, "diagnostic", "predictive")
        /\ Before(state.execution_path, "human_review", "finalize")
        /\ Before(state.execution_path, "escalation", "finalize")

\* C6: a run whose triage yields severity "low" ends with the path
\* <<"triage">>, having run no other stage, and its status is no longer
\* "processing".
C6_LowSeverity ==
    (pc = "END" /\ state.severity = "low") =>
        /\ state.execution_path = <<"triage">>
        /\ executed = <<"triage">>
        /\ state.status # "processing"

\* C7: a critical/high alert diagnosed with confidence above 0.7 ends with
\* the path triage, diagnostic, escalation, finalize, status "completed"
\* and auto_escalate set.
C7_AutoEscalation ==
    (pc = "END" /\ state.severity \in Escalating
                /\ state.confidence_score > 7) =>
        /\ state.execution_path =
               <<"triage", "diagnostic", "escalation", "finalize">>
        /\ state.status = "completed"
        /\ state.auto_escalate = TRUE

\* C8: a run with moderate confidence (0.3 to 0.7) whose risk is not high
\* (low, as in the scenario, or any other label) has human_review before
\* finalize in its path, and "escalation" in the path (or among the
\* executed stages) only if human_approved.
C8_HumanReviewPath ==
    (pc = "END" /\ state.confidence_score \in 3..7
                /\ state.risk_assessment # "high") =>
        /\ "human_review" \in Range(state.execution_path)
        /\ "finalize" \in Range(state.execution_path)
        /\ Before(state.execution_path, "human_review", "finalize")
        /\ ("escalation" \in Range(state.execution_path)
              \cup Range(executed) => state.human_approved)

C8_Witness ==
    /\ pc = "END"
    /\ state.confidence_score = 5
    /\ state.risk_assessment = "low"
    /\ "predictive" \in Range(executed)
    /\ state.execution_path = <<"triage", "diagnostic", "predictive",
                                "human_review", "finalize">>

\* C9: human review suspends the run: until the request layer holds the
\* case (only then can approve or reject reach it), human_review is the
\* last stage executed: neither escalation nor finalize has run.
C9_Suspension ==
    (pc # "idle" /\ "human_review" \in Range(executed)
                 /\ state.case_id \notin DOMAIN workflow_history) =>
        Last(executed) = "human_review"

\* C10: a stored case that went through human review and was approved has
\* run escalation and then finalize after the review; a rejected one has
\* run finalize only; no stage before the review runs twice.
C10_Resume ==
    \A c \in {k \in DOMAIN workflow_history :
                 "execution_path" \in DOMAIN Stored(k)} :
        LET w == Stored(c)
            p == w.execution_path
            n == Len(p)
        IN  "human_review" \in Range(p) =>
              /\ w.human_approved =>
                   /\ n >= 3
                   /\ SubSeq(p, n - 2, n) =
                        <<"human_review", "escalation", "finalize">>
              /\ w.status = "rejected" =>
                   /\ n >= 2
                   /\ SubSeq(p, n - 1, n) = <<"human_review", "finalize">>
              /\ \A st \in {"triage", "diagnostic", "predictive",
                            "human_review"} : Count(p, st) <= 1

\* C11: leaving human review, the next stage is escalation when
\* human_approved is true and finalize when it is false; the run never
\* ends directly after the review.
C11_RouteAfterHumanReview ==
    [][pc = "human_review" /\ pc' # "human_review" =>
         pc' = IF state'.human_approved THEN "escalation"
               ELSE "finalize"]_vars

C11_Witness ==
    /\ executed = <<"human_review">>
    /\ state.human_approved = TRUE
    /\ pc = "escalation"

\* C12: a run that has ended has status "completed" or "error".
C12_TerminalStatus ==
    pc = "END" => state.status \in {"completed", "error"}

\* C13: a run in which a stage faulted (error_message is set) ends with
\* status "error", its path lists only stages that were executed, and no
\* stage was executed twice.
C13_FaultKeepsError ==
    (pc = "END" /\ state.error_message # None) =>
        /\ state.status = "error"
        /\ Range(state.execution_path) \subseteq Range(executed)
        /\ \A st \in Range(executed) : Count(executed, st) = 1

\* C14: whatever the reasoning provider does (raise, unparsable or
\* malformed output), the triage stage leaves no error on the case.
C14_TriageNeverErrors ==
    executed = <<"triage">> =>
        /\ state.status # "error"
        /\ state.error_message = None
        /\ state.execution_path = <<"triage">>

\* C20: the contact looked up for a module that has a record is that
\* module's own record, and for any other module it is the generic
\* support contact, never the record of another module.
C20_ContactLookup ==
    pc = "looked_up" =>
        state.escalation_contact =
            IF state.module \in {"CNTR", "VSL", "EDI/API"}
            THEN state.module
            ELSE "default"

\* ------------------------------------------- properties of the retriever
HasRetrieved == pc \in {"diagnose", "diagnosed"}

FirstFailed == queries # <<>> /\ ~queries[1].ok

\* C15: for a module without a collection the retriever returns the empty
\* sequence and queries nothing.
C15_NoCollection ==
    (HasRetrieved /\ state.module \notin DOMAIN collections) =>
        /\ candidate_sops = <<>>
        /\ queries = <<>>

C15_Witness ==
    /\ pc = "diagnose"
    /\ state.module = "Unknown"
    /\ collections["CNTR"] > 0
    /\ entities # <<>>
    /\ candidate_sops = <<>>

\* C16: the retriever's output holds each document id at most once, and an
\* id found by both the semantic and the keyword search is represented by
\* its semantic entry.
C16_Dedupe ==
    HasRetrieved =>
        /\ \A i, j \in 1..Len(candidate_sops) :
              candidate_sops[i].id = candidate_sops[j].id => i = j
        /\ \A i \in 1..Len(candidate_sops) :
              candidate_sops[i].id \in Ids(semantic_sops) \cap Ids(keyword_sops)
                  => candidate_sops[i].search_type = "semantic"
        /\ Ids(candidate_sops) = Ids(semantic_sops) \cup Ids(keyword_sops)
              \/ FirstFailed

C16_Witness ==
    /\ HasRetrieved
    /\ Ids(semantic_sops) \cap Ids(keyword_sops) # {}
    /\ Ids(keyword_sops) \ Ids(semantic_sops) # {}
    /\ Len(candidate_sops) >= 3

\* Place of an output entry in the merge order: semantic results in query
\* order, then keyword results in query order.
MergeRank(sop) ==
    IF sop.search_type = "semantic"
    THEN CHOOSE i \in 1..Len(semantic_sops) : semantic_sops[i].id = sop.id
    ELSE Len(semantic_sops)
         + (CHOOSE i \in 1..Len(keyword_sops) :
              /\ keyword_sops[i].id = sop.id
              /\ \A k \in 1..(i - 1) : keyword_sops[k].id # sop.id)

\* C17: the retriever's output is in non-increasing order of
\* relevance_score, and entries of equal score are in merge order.
C17_Ranked ==
    HasRetrieved =>
        \A i, j \in 1..Len(candidate_sops) :
            i < j =>
              /\ candidate_sops[i].relevance_score
                   >= candidate_sops[j].relevance_score
              /\ (candidate_sops[i].relevance_score
                    = candidate_sops[j].relevance_score /\ ~FirstFailed)
                   => MergeRank(candidate_sops[i])
                        < MergeRank(candidate_sops[j])

C17_Witness ==
    /\ HasRetrieved
    /\ \E i, j \in 1..Len(candidate_sops) :
          /\ i < j
          /\ candidate_sops[i].search_type = "keyword"
          /\ candidate_sops[j].search_type = "semantic"
    /\ \E i, j \in 1..Len(candidate_sops) :
          /\ i < j
          /\ candidate_sops[i].search_type = "semantic"
          /\ candidate_sops[j].search_type = "keyword"
          /\ candidate_sops[i].relevance_score
               = candidate_sops[j].relevance_score

\* C18: when the semantic query raises, exactly one more query is made, a
\* plain one for 3 results; its documents are returned tagged "fallback",
\* and nothing is returned when it raises as well.
C18_FallbackSearch ==
    (HasRetrieved /\ FirstFailed) =>
        /\ Len(queries) = 2
        /\ queries[1].kind = "semantic"
        /\ queries[2].kind = "fallback"
        /\ queries[2].n_results = 3
        /\ \A i \in 1..Len(candidate_sops) :
              candidate_sops[i].search_type = "fallback"
        /\ Len(candidate_sops) =
              IF ~queries[2].ok THEN 0
              ELSE IF collections[state.module] < 3
                   THEN collections[state.module] ELSE 3

C18_Witness ==
    /\ HasRetrieved
    /\ FirstFailed
    /\ collections[state.module] > 3
    /\ Len(candidate_sops) = 3

\* The constrained keyword query was made and raised.
KeywordFailed ==
    /\ Len(queries) >= 2
    /\ queries[2].kind = "keyword"
    /\ ~queries[2].ok

\* C23: when the constrained keyword query raises, one query for 1 result
\* is made per entity, whether or not earlier entity queries raised; every
\* entity query that answers contributes its document, and the semantic
\* results are all in the output.
C23_PerEntityFallback ==
    (HasRetrieved /\ KeywordFailed) =>
        /\ Len(queries) = 2 + Len(entities)
        /\ \A i \in 3..Len(queries) :
              /\ queries[i].kind = "entity"
              /\ queries[i].n_results = 1
        /\ Len(keyword_sops) =
              IF collections[state.module] = 0 THEN 0
              ELSE Cardinality({i \in 3..Len(queries) : queries[i].ok})
        /\ \A i \in 1..Len(semantic_sops) :
              \E j \in 1..Len(candidate_sops) :
                  candidate_sops[j] = semantic_sops[i]
        /\ Len(semantic_sops) =
              IF collections[state.module] < 5
              THEN collections[state.module] ELSE 5
        /\ Ids(keyword_sops) \subseteq Ids(candidate_sops)

C23_Witness ==
    /\ HasRetrieved
    /\ KeywordFailed
    /\ Len(queries) = 4
    /\ ~queries[3].ok
    /\ queries[4].ok
    /\ Len(keyword_sops) = 1
    /\ Len(semantic_sops) = 5
    /\ Len(candidate_sops) >= 5

\* C19: a diagnostic stage whose retrieval found nothing calls no
\* reasoning provider and yields the fixed fallback: confidence 0.3 (never
\* above 0.7) and best SOP "Manual Review Required".
C19_EmptyRetrieval ==
    (pc = "diagnosed" /\ candidate_sops = <<>>) =>
        /\ llm_calls = 0
        /\ state.confidence_score = 3
        /\ state.confidence_score <= 7
        /\ state.best_sop = "Manual Review Required"
        /\ state.execution_path = <<"triage", "diagnostic">>

C19_Witness ==
    /\ pc = "diagnosed"
    /\ llm
    /\ candidate_sops = <<>>
    /\ queries # <<>>
    /\ llm_calls = 0
    /\ state.best_sop = "Manual Review Required"

\* C22: the stage after escalation is always finalize, also when the
\* escalation stage faults, and the run ends after finalize: a run that
\* enters escalation goes on to execute finalize and end, having executed
\* finalize exactly once, as its last stage, and no stage is executed
\* after finalize.
C22_EscalationThenFinalize ==
    /\ [][/\ (pc = "escalation" /\ pc' # pc) =>
                 /\ pc' = "finalize"
                 /\ executed' = Append(executed, "escalation")
          /\ (pc = "finalize" /\ pc' # pc) =>
                 /\ pc' = "END"
                 /\ executed' = Append(executed, "finalize")
          /\ "finalize" \in Range(executed) => executed' = executed]_vars
    /\ [](pc = "escalation" => "finalize" \notin Range(executed))
    /\ (pc = "escalation") ~>
           (/\ pc = "END"
            /\ "escalation" \in Range(executed)
            /\ Count(executed, "finalize") = 1
            /\ Last(executed) = "finalize")

C22_Witness ==
    /\ pc = "END"
    /\ "escalation" \in Range(executed)
    /\ state.status = "completed"
    /\ state.error_message # None
    /\ Last(executed) = "finalize"

\* C27: what a process_alert run returns has human_approved = False and
\* auto_escalate = False: human review approves only critical/high with
\* confidence above 0.7, and no run reaches human review in such a state,
\* so a run that executed human review never executes escalation.
C27_NeverApproved ==
    /\ pc \in {"END", "raised"} =>
          LET result == process_alert_result(pc, state)
          IN  /\ "human_approved" \in DOMAIN result
              /\ result.human_approved = FALSE
              /\ "auto_escalate" \in DOMAIN result
              /\ result.auto_escalate = FALSE
    /\ pc = "human_review" =>
          ~(state.severity \in Escalating /\ state.confidence_score > 7)
    /\ "human_review" \in Range(executed) =>
          "escalation" \notin Range(executed) /\ pc # "escalation"

\* C28: in a run started by process_alert the escalation stage faults
\* before it updates the state: "escalation" is not in execution_path,
\* escalation_contact and email_content are still empty, and error_message
\* is set.
C28_EscalationFaults ==
    "escalation" \in Range(executed) =>
        /\ "escalation" \notin Range(state.execution_path)
        /\ state.escalation_contact = EmptyDict
        /\ state.email_content = EmptyDict
        /\ state.error_message # None

C28_Witness ==
    /\ pc = "finalize"
    /\ Last(executed) = "escalation"
    /\ state.status = "error"
    /\ state.execution_path = <<"triage", "diagnostic">>

\* The stages in the order of the graph.
StageOrder == <<"triage", "diagnostic", "predictive", "human_review",
                "escalation", "finalize">>

StagePosition(stage) ==
    CHOOSE i \in 1..Len(StageOrder) : StageOrder[i] = stage

\* C29: every run ends at END: until it has reached END a stage can
\* always be executed, and the stages executed are at most six, none of
\* them twice, in an order that is a subsequence of triage, diagnostic,
\* predictive, human_review, escalation, finalize.
C29_Terminates ==
    /\ Len(executed) <= 6
    /\ \A st \in Range(executed) : Count(executed, st) = 1
    /\ \A i, j \in 1..Len(executed) :
          i < j => StagePosition(executed[i]) < StagePosition(executed[j])
    /\ pc = "END" \/ ENABLED RunNext

\* C30: a stage leaves alert_text, case_id and timestamp as they were, and
\* every stage but triage leaves severity, urgency, module and entities
\* as they were.
C30_StageFrame ==
    [][(executed' # executed /\ executed' # <<>>) =>
         /\ state'.alert_text = state.alert_text
         /\ state'.case_id = state.case_id
         /\ state'.timestamp = state.timestamp
         /\ Last(executed') # "triage" =>
               /\ state'.severity = state.severity
               /\ state'.urgency = state.urgency
               /\ state'.module = state.module
               /\ state'.entities = state.entities]_vars

C30_Witness ==
    /\ pc = "END"
    /\ state.timestamp = 1
    /\ state.severity = "high"
    /\ state.urgency = "immediate"
    /\ state.entities = <<"CMAU1234567">>
    /\ state.risk_assessment = "high"
    /\ state.execution_path = <<"triage", "diagnostic", "predictive",
                                "finalize">>

\* ---------------------------------- properties of the predictive stage
HasPredicted == Len(executed) > 0 /\ Last(executed) = "predictive"

\* C24: when the case log is empty or the filter keeps no row, the
\* predictive stage yields risk_assessment "low".
C24_NoDataIsLow ==
    (HasPredicted /\ (historical_data = 0 \/ filtered_data = 0)) =>
        state.risk_assessment = "low"

\* C25: when the filter keeps more than 5 rows the predictive stage yields
\* risk_assessment "high", with or without a reasoning provider; with 5
\* rows or fewer it does not.
C25_HighVolumeIsHighRisk ==
    HasPredicted =>
        /\ filtered_data > 5 => state.risk_assessment = "high"
        /\ filtered_data \in 0..5 => state.risk_assessment # "high"

\* ------------------------------- properties of the fallback classifiers
\* C26: the fallback classification of an alert is the first match of the
\* ladder on its lower-cased text: critical/urgent/down/failed/error give
\* high, else warning/issue/problem give medium, else info/notice give
\* low, else medium; urgency equals severity, and "critical" is never
\* produced.
C26_KeywordLadder ==
    pc = "classified" =>
        LET text_lower == lower(state.alert_text)
            expected ==
                IF any_keyword(text_lower,
                       {<<"c", "r", "i", "t", "i", "c", "a", "l">>,
                        <<"u", "r", "g", "e", "n", "t">>,
                        <<"d", "o", "w", "n">>,
                        <<"f", "a", "i", "l", "e", "d">>,
                        <<"e", "r", "r", "o", "r">>})
                THEN "high"
                ELSE IF any_keyword(text_lower,
                       {<<"w", "a", "r", "n", "i", "n", "g">>,
                        <<"i", "s", "s", "u", "e">>,
                        <<"p", "r", "o", "b", "l", "e", "m">>})
                THEN "medium"
                ELSE IF any_keyword(text_lower,
                       {<<"i", "n", "f", "o">>,
                        <<"n", "o", "t", "i", "c", "e">>})
                THEN "low"
                ELSE "medium"
        IN  /\ state.severity = expected
            /\ state.urgency = expected
            /\ state.severity # "critical"

\* ------------------------------------------- properties of the request layer
\* C21: concurrent cases do not interfere: the alerts received have
\* pairwise distinct case ids, one state is stored per finished alert
\* request, and the state stored for a finished request is that request's
\* own (its alert text), never another request's.
C21_CasesIndependent ==
    /\ \A i, j \in 1..Len(requests) :
          i # j => requests[i].case_id # requests[j].case_id
    /\ Cardinality({c \in DOMAIN workflow_history : c.prefix = "PSA"})
          = Cardinality({i \in 1..Len(requests) : requests[i].done})
    /\ \A i \in 1..Len(requests) :
          requests[i].done =>
            /\ requests[i].case_id \in DOMAIN workflow_history
            /\ Stored(requests[i].case_id).alert_text
                 = requests[i].alert_text

====
